---------------------------- MODULE Spec2Model ----------------------------
(***************************************************************************)
(* Clothing Store API (src/main.py): a FastAPI service over one MongoDB    *)
(* collection, "product".                                                  *)
(*                                                                         *)
(* Python values are records [t, v]: t is the Python type, v a sequence of *)
(* integers carrying the payload.  A str is the sequence of its code       *)
(* points, so that emptiness, ordering and hexadecimal parsing are         *)
(* computed the way Python computes them.  A dict is a function from field *)
(* names to values.                                                        *)
(***************************************************************************)
EXTENDS Integers, Sequences, FiniteSets, TLC

VARIABLES
    db,         \* the process-wide store handle: "unset" (None) or "connected"
    products,   \* the "product" collection, in insertion (natural) order
    nextId,     \* the store's ObjectId generator
    pc,         \* per worker thread: position inside seed_products
    resp,       \* the response of the request that completed last
    created,    \* history: <<payload, returned id>> of each successful create
    sin,        \* serialize_doc run: the document as it was passed
    sdoc,       \* serialize_doc run: the caller's document object
    sout,       \* serialize_doc run: the returned value
    spc         \* serialize_doc run: "call" before, "done" after

vars == <<db, products, nextId, pc, resp, created, sin, sdoc, sout, spc>>

storeVars == <<db, products, nextId, pc, resp, created>>
serVars == <<sin, sdoc, sout, spc>>

----------------------------------------------------------------------------
(* Bounds *)

\* Hexadecimal digits of an ObjectId's string form (24 in bson).
IdLen == 2
\* Successful create_product requests in one behaviour.
MaxCreates == 2

----------------------------------------------------------------------------
(* Python values *)

None == [t |-> "none", v |-> <<>>]
Bool(b) == [t |-> "bool", v |-> IF b THEN <<1>> ELSE <<0>>]
Num(n) == [t |-> "num", v |-> <<n>>]
Str(s) == [t |-> "str", v |-> s]
\* bson.ObjectId: an opaque identifier, here the number its bytes spell
ObjectId(n) == [t |-> "oid", v |-> <<n>>]

EmptyDict == [k \in {} |-> None]

IsDict(x) == "t" \notin DOMAIN x

\* Python truthiness: `if x`
Truthy(x) ==
    IF IsDict(x) THEN DOMAIN x # {}
    ELSE CASE x.t = "none" -> FALSE
           [] x.t = "bool" -> x.v[1] = 1
           [] x.t = "num" -> x.v[1] # 0
           [] x.t = "str" -> Len(x.v) > 0
           [] OTHER -> TRUE

isinstance_ObjectId(x) == (~IsDict(x)) /\ x.t = "oid"

\* one lower-case hexadecimal digit, as a code point
HexChar(k) == IF k < 10 THEN 48 + k ELSE 87 + k

\* the value of a hexadecimal digit given as a code point, -1 if it is none
HexVal(c) ==
    IF c \in 48..57 THEN c - 48
    ELSE IF c \in 97..102 THEN c - 87
    ELSE IF c \in 65..70 THEN c - 55
    ELSE -1

\* str(ObjectId): IdLen lower-case hexadecimal digits, most significant first
ObjectIdStr(n) == [i \in 1..IdLen |-> HexChar((n \div (16 ^ (IdLen - i))) % 16)]

\* bson.ObjectId.is_valid for a str
ObjectIdValid(s) == Len(s) = IdLen /\ \A i \in 1..Len(s) : HexVal(s[i]) >= 0

RECURSIVE HexNumber(_)
HexNumber(s) ==
    IF s = <<>> THEN 0
    ELSE 16 * HexNumber(SubSeq(s, 1, Len(s) - 1)) + HexVal(s[Len(s)])

\* ObjectId(product_id): the identifier a valid str spells
ObjectIdParse(s) == ObjectId(HexNumber(s))

RECURSIVE Decimal(_)
Decimal(n) == IF n < 10 THEN <<48 + n>> ELSE Decimal(n \div 10) \o <<48 + (n % 10)>>

\* str(x) for a scalar
PyStr(x) ==
    CASE x.t = "oid" -> ObjectIdStr(x.v[1])
      [] x.t = "str" -> x.v
      [] x.t = "none" -> <<78, 111, 110, 101>>
      [] x.t = "bool" -> IF x.v[1] = 1 THEN <<84, 114, 117, 101>>
                         ELSE <<70, 97, 108, 115, 101>>
      [] x.t = "num" -> IF x.v[1] < 0 THEN <<45>> \o Decimal(0 - x.v[1])
                        ELSE Decimal(x.v[1])

\* Python's < on str: lexicographic by code point, a proper prefix is smaller
StrLess(a, b) ==
    \E i \in 1..(Len(b)) :
        /\ \A j \in 1..(i - 1) : j <= Len(a) /\ a[j] = b[j]
        /\ i - 1 <= Len(a)
        /\ (i > Len(a) \/ a[i] < b[i])

----------------------------------------------------------------------------
(* serialize_doc *)

\* A slip: d["id"] = str(d["_id"]), the internal field is read but not popped.
serialize_doc_rename_keeps_id(doc) ==
    IF "_id" \in DOMAIN doc
    THEN [k \in DOMAIN doc \cup {"id"} |->
             IF k = "id" THEN Str(PyStr(doc["_id"])) ELSE doc[k]]
    ELSE doc

\* d = dict(doc); if "_id" in d: d["id"] = str(d.pop("_id"))
serialize_doc_rename(doc) ==
    IF "_id" \in DOMAIN doc
    THEN [k \in (DOMAIN doc \ {"_id"}) \cup {"id"} |->
             IF k = "id" THEN Str(PyStr(doc["_id"])) ELSE doc[k]]
    ELSE doc

\* for k, v in list(d.items()): if isinstance(v, ObjectId): d[k] = str(v)
serialize_doc_convert(d) ==
    [k \in DOMAIN d |-> IF isinstance_ObjectId(d[k]) THEN Str(PyStr(d[k])) ELSE d[k]]

serialize_doc(doc) ==
    IF ~Truthy(doc) THEN doc
    ELSE serialize_doc_convert(serialize_doc_rename(doc))

\* The caller's object after the call: serialize_doc works on the copy
\* dict(doc), so the argument keeps its contents.
serialize_doc_arg(doc) == doc


----------------------------------------------------------------------------
(* Text constants, as code points *)

\* "Tops"
Tops ==
    <<84, 111, 112, 115>>

\* "Hoodies"
Hoodies ==
    <<72, 111, 111, 100, 105, 101, 115>>

\* "Bottoms"
Bottoms ==
    <<66, 111, 116, 116, 111, 109, 115>>

\* "Outerwear"
Outerwear ==
    <<79, 117, 116, 101, 114, 119, 101, 97, 114>>

\* "tops"
LowerTops ==
    <<116, 111, 112, 115>>

\* "Tee"
Tee ==
    <<84, 101, 101>>

\* "Plain white"
PlainWhite ==
    <<80, 108, 97, 105, 110, 32, 119, 104, 105, 116, 101>>

\* "/img/tee.png"
TeeImage ==
    <<47, 105, 109, 103, 47, 116, 101, 101, 46, 112, 110, 103>>

\* "https://images.unsplash.com/photo-"
UnsplashPrefix ==
    <<104, 116, 116, 112, 115, 58, 47, 47, 105, 109, 97, 103, 101, 115, 46,
    117, 110, 115, 112, 108, 97, 115, 104, 46, 99, 111, 109, 47, 112, 104,
    111, 116, 111, 45>>

\* "?q=80&w=1200&auto=format&fit=crop"
UnsplashSuffix ==
    <<63, 113, 61, 56, 48, 38, 119, 61, 49, 50, 48, 48, 38, 97, 117, 116,
    111, 61, 102, 111, 114, 109, 97, 116, 38, 102, 105, 116, 61, 99, 114,
    111, 112>>

\* "Essential Tee"
DemoTitle1 ==
    <<69, 115, 115, 101, 110, 116, 105, 97, 108, 32, 84, 101, 101>>

\* "Ultra-soft cotton tee with a relaxed fit."
DemoDescription1 ==
    <<85, 108, 116, 114, 97, 45, 115, 111, 102, 116, 32, 99, 111, 116, 116,
    111, 110, 32, 116, 101, 101, 32, 119, 105, 116, 104, 32, 97, 32, 114,
    101, 108, 97, 120, 101, 100, 32, 102, 105, 116, 46>>

\* "1520975922215-c994c6a8dffd"
DemoPhoto1 ==
    <<49, 53, 50, 48, 57, 55, 53, 57, 50, 50, 50, 49, 53, 45, 99, 57, 57,
    52, 99, 54, 97, 56, 100, 102, 102, 100>>

\* "Everyday Hoodie"
DemoTitle2 ==
    <<69, 118, 101, 114, 121, 100, 97, 121, 32, 72, 111, 111, 100, 105,
    101>>

\* "Cozy fleece hoodie for all-day comfort."
DemoDescription2 ==
    <<67, 111, 122, 121, 32, 102, 108, 101, 101, 99, 101, 32, 104, 111,
    111, 100, 105, 101, 32, 102, 111, 114, 32, 97, 108, 108, 45, 100, 97,
    121, 32, 99, 111, 109, 102, 111, 114, 116, 46>>

\* "1521572163474-6864f9cf17ab"
DemoPhoto2 ==
    <<49, 53, 50, 49, 53, 55, 50, 49, 54, 51, 52, 55, 52, 45, 54, 56, 54,
    52, 102, 57, 99, 102, 49, 55, 97, 98>>

\* "Slim Chinos"
DemoTitle3 ==
    <<83, 108, 105, 109, 32, 67, 104, 105, 110, 111, 115>>

\* "Tailored chinos with stretch for movement."
DemoDescription3 ==
    <<84, 97, 105, 108, 111, 114, 101, 100, 32, 99, 104, 105, 110, 111,
    115, 32, 119, 105, 116, 104, 32, 115, 116, 114, 101, 116, 99, 104, 32,
    102, 111, 114, 32, 109, 111, 118, 101, 109, 101, 110, 116, 46>>

\* "1520975916090-3105956dac38"
DemoPhoto3 ==
    <<49, 53, 50, 48, 57, 55, 53, 57, 49, 54, 48, 57, 48, 45, 51, 49, 48,
    53, 57, 53, 54, 100, 97, 99, 51, 56>>

\* "Classic Denim Jacket"
DemoTitle4 ==
    <<67, 108, 97, 115, 115, 105, 99, 32, 68, 101, 110, 105, 109, 32, 74,
    97, 99, 107, 101, 116>>

\* "Timeless denim with a modern wash."
DemoDescription4 ==
    <<84, 105, 109, 101, 108, 101, 115, 115, 32, 100, 101, 110, 105, 109,
    32, 119, 105, 116, 104, 32, 97, 32, 109, 111, 100, 101, 114, 110, 32,
    119, 97, 115, 104, 46>>

\* "1520975693416-35b05b6cb4f2"
DemoPhoto4 ==
    <<49, 53, 50, 48, 57, 55, 53, 54, 57, 51, 52, 49, 54, 45, 51, 53, 98,
    48, 53, 98, 54, 99, 98, 52, 102, 50>>

\* "Athletic Joggers"
DemoTitle5 ==
    <<65, 116, 104, 108, 101, 116, 105, 99, 32, 74, 111, 103, 103, 101,
    114, 115>>

\* "Lightweight joggers for lounge or gym."
DemoDescription5 ==
    <<76, 105, 103, 104, 116, 119, 101, 105, 103, 104, 116, 32, 106, 111,
    103, 103, 101, 114, 115, 32, 102, 111, 114, 32, 108, 111, 117, 110,
    103, 101, 32, 111, 114, 32, 103, 121, 109, 46>>

\* "1541099649105-f69ad21f3246"
DemoPhoto5 ==
    <<49, 53, 52, 49, 48, 57, 57, 54, 52, 57, 49, 48, 53, 45, 102, 54, 57,
    97, 100, 50, 49, 102, 51, 50, 52, 54>>

----------------------------------------------------------------------------
(* The demo set of seed_products *)

DemoDoc(title, description, price, category, photo) ==
    [ title |-> Str(title),
      description |-> Str(description),
      price |-> Num(price),
      category |-> Str(category),
      in_stock |-> Bool(TRUE),
      image |-> Str(UnsplashPrefix \o photo \o UnsplashSuffix) ]

demo ==
    << DemoDoc(DemoTitle1, DemoDescription1, 24, Tops, DemoPhoto1),
       DemoDoc(DemoTitle2, DemoDescription2, 58, Hoodies, DemoPhoto2),
       DemoDoc(DemoTitle3, DemoDescription3, 64, Bottoms, DemoPhoto3),
       DemoDoc(DemoTitle4, DemoDescription4, 89, Outerwear, DemoPhoto4),
       DemoDoc(DemoTitle5, DemoDescription5, 49, Bottoms, DemoPhoto5) >>

----------------------------------------------------------------------------
(* The store *)

\* The worker threads that run the synchronous handlers.
Workers == {"w1", "w2"}

\* Whether the store calls of a request succeed: none does while the handle is
\* unset, and a call on a connected handle may raise.
StoreOutcomes == IF db = "connected" THEN BOOLEAN ELSE {FALSE}

\* insert_one / insert_many: each document without `_id` gets the next
\* identifier of the store's generator, a document with `_id` keeps it.
WithId(doc, n) == IF "_id" \in DOMAIN doc THEN doc ELSE ("_id" :> ObjectId(n)) @@ doc

insert_many(coll, docs) ==
    coll \o [i \in 1..Len(docs) |-> WithId(docs[i], nextId + i - 1)]

\* A filter document matches on equality of every field it names.
Matches(doc, filter_q) ==
    \A k \in DOMAIN filter_q : k \in DOMAIN doc /\ doc[k] = filter_q[k]

\* database.get_documents: Find(collection, filter); nothing is found while
\* the handle is unset
get_documents(filter_q) ==
    IF db = "unset" THEN <<>>
    ELSE SelectSeq(products, LAMBDA d : Matches(d, filter_q))

\* database.get_documents raises when a call on the connected store fails
get_documents_raises(ok) == db = "connected" /\ ~ok

\* find_one({"_id": oid}): the first match, or None
find_one(filter_q) ==
    LET found == SelectSeq(products, LAMBDA d : Matches(d, filter_q))
    IN IF found = <<>> THEN None ELSE found[1]

\* distinct("category"): the values of the field, each once
RECURSIVE Dedup(_)
Dedup(seq) ==
    IF seq = <<>> THEN <<>>
    ELSE LET rest == Dedup(SubSeq(seq, 1, Len(seq) - 1))
             x == seq[Len(seq)]
         IN IF \E i \in 1..Len(rest) : rest[i] = x THEN rest ELSE Append(rest, x)

distinct(field) ==
    LET having == SelectSeq(products, LAMBDA d : field \in DOMAIN d)
    IN Dedup([i \in 1..Len(having) |-> having[i][field]])

\* sorted(list of str): ascending, by insertion
RECURSIVE sorted(_)
sorted(seq) ==
    IF seq = <<>> THEN <<>>
    ELSE LET rest == sorted(SubSeq(seq, 1, Len(seq) - 1))
             x == seq[Len(seq)]
             below == SelectSeq(rest, LAMBDA y : ~StrLess(x.v, y.v))
             above == SelectSeq(rest, LAMBDA y : StrLess(x.v, y.v))
         IN below \o <<x>> \o above

----------------------------------------------------------------------------
(* Request payloads and the product schema *)

\* Request bodies of POST /api/products.
Payloads ==
    { [title |-> Str(Tee), price |-> Num(10), category |-> Str(Tops)],
      [title |-> Str(Tee), price |-> Num(0), category |-> Str(LowerTops),
       description |-> Str(PlainWhite), in_stock |-> Bool(FALSE),
       image |-> Str(TeeImage)],
      [title |-> Str(Tee), price |-> Num(10), category |-> Str(Bottoms),
       in_stock |-> Bool(TRUE), image |-> None,
       _id |-> ObjectId(255), id |-> Str(ObjectIdStr(255))],
      [title |-> Str(Tee), price |-> Num(10), category |-> Str(<<>>)],
      [title |-> Str(Tee), price |-> Num(-1), category |-> Str(Tops)],
      [price |-> Num(10), category |-> Str(Tops)] }

\* schemas.Product: title and category non-empty text, price >= 0
ProductSchemaValid(p) ==
    /\ {"title", "price", "category"} \subseteq DOMAIN p
    /\ p["title"].t = "str" /\ Len(p["title"].v) > 0
    /\ p["category"].t = "str" /\ Len(p["category"].v) > 0
    /\ p["price"].t = "num" /\ p["price"].v[1] >= 0

\* product.model_dump(): the schema's fields, defaults filled in, unknown
\* fields dropped; `image` stays absent when it was omitted
model_dump(p) ==
    [k \in {"title", "description", "price", "category", "in_stock"}
           \cup ({"image"} \cap DOMAIN p) |->
        IF k \in DOMAIN p THEN p[k]
        ELSE CASE k = "description" -> None
               [] k = "in_stock" -> Bool(TRUE)]

\* ProductResponse: the response model's fields, its defaults filled in
ProductResponse(d) ==
    [k \in {"id", "title", "description", "price", "category", "in_stock", "image"} |->
        IF k \in DOMAIN d THEN d[k]
        ELSE CASE k = "description" -> None
               [] k = "in_stock" -> Bool(TRUE)
               [] k = "image" -> None]

Response(op, arg, fault, status, body) ==
    [op |-> op, arg |-> arg, fault |-> fault, status |-> status, body |-> body]

----------------------------------------------------------------------------
(* The handlers *)

read_root == Response("read_root", None, FALSE, 200,
                      [message |-> "Clothing Store Backend is running"])

hello == Response("hello", None, FALSE, 200,
                  [message |-> "Hello from the backend API!"])

\* test_database; the status marks of the texts are left out, and a connected
\* handle means DATABASE_URL and DATABASE_NAME were set
test_database(ok) ==
    Response("test_database", None, db = "connected" /\ ~ok, 200,
        IF db = "unset"
        THEN [backend |-> "Running", database |-> "Available but not initialized",
              database_url |-> "None", database_name |-> "None",
              connection_status |-> "Not Connected", collections |-> <<>>]
        ELSE IF ok
        THEN [backend |-> "Running", database |-> "Connected & Working",
              database_url |-> "Set", database_name |-> "Set",
              connection_status |-> "Connected",
              collections |-> IF products = <<>> THEN <<>> ELSE <<"product">>]
        ELSE [backend |-> "Running", database |-> "Connected but Error",
              database_url |-> "Set", database_name |-> "Set",
              connection_status |-> "Not Connected", collections |-> <<>>])

\* A variant: {"category": category} if category is not None else {}
list_products_filter_not_none(category) ==
    IF category # None THEN ("category" :> category) ELSE EmptyDict

\* filter_q = {"category": category} if category else {}
list_products_filter(category) ==
    IF Truthy(category) THEN ("category" :> category) ELSE EmptyDict

list_products(category, ok) ==
    IF get_documents_raises(ok)
    THEN Response("list_products", category, TRUE, 500, "Internal Server Error")
    ELSE LET docs == get_documents(list_products_filter(category))
         IN Response("list_products", category, FALSE, 200,
                [i \in 1..Len(docs) |-> ProductResponse(serialize_doc(docs[i]))])

\* A slip: data["image"] = None without the test, a supplied image is lost.
create_product_data_clears_image(dump) ==
    [k \in DOMAIN dump \cup {"image"} |-> IF k = "image" THEN None ELSE dump[k]]

\* data = product.model_dump(); if "image" not in data: data["image"] = None
create_product_data(dump) ==
    IF "image" \notin DOMAIN dump THEN ("image" :> None) @@ dump ELSE dump

\* get_product: every exception of the try block, the 404 it raises itself
\* included, reaches `except Exception` and leaves as 400.
get_product(product_id, ok) ==
    LET raised400 == Response("get_product", product_id, ~ok, 400,
                              [detail |-> "Invalid product id"])
    IN IF db = "unset" THEN raised400
       ELSE IF ~ObjectIdValid(product_id) THEN
                Response("get_product", product_id, FALSE, 400,
                         [detail |-> "Invalid product id"])
       ELSE IF ~ok THEN raised400
       ELSE LET doc == find_one("_id" :> ObjectIdParse(product_id))
            IN IF ~Truthy(doc) THEN raised400
               ELSE Response("get_product", product_id, FALSE, 200,
                             ProductResponse(serialize_doc(doc)))

\* A slip: the handle is not tested, and distinct() on None raises.
list_categories_unchecked(ok) ==
    IF db = "unset" \/ ~ok
    THEN Response("list_categories", None, db = "connected", 500, "Internal Server Error")
    ELSE Response("list_categories", None, FALSE, 200,
                  sorted(SelectSeq(distinct("category"), LAMBDA c : Truthy(c))))

\* A slip: the distinct values are returned in the store's order.
list_categories_unsorted(ok) ==
    IF db = "unset" THEN Response("list_categories", None, FALSE, 200, <<>>)
    ELSE IF ~ok THEN Response("list_categories", None, TRUE, 500, "Internal Server Error")
    ELSE Response("list_categories", None, FALSE, 200,
                  SelectSeq(distinct("category"), LAMBDA c : Truthy(c)))

list_categories(ok) ==
    IF db = "unset" THEN Response("list_categories", None, FALSE, 200, <<>>)
    ELSE IF ~ok THEN Response("list_categories", None, TRUE, 500, "Internal Server Error")
    ELSE LET cats == distinct("category")
         IN Response("list_categories", None, FALSE, 200,
                     sorted(SelectSeq(cats, LAMBDA c : Truthy(c))))

\* database.create_document: Insert(collection, doc), the new collection and
\* the assigned identifier in its string form
create_document(data) ==
    LET coll == insert_many(products, <<data>>)
    IN [coll |-> coll, id |-> PyStr(coll[Len(coll)]["_id"])]

\* database.create_document raises when the handle is unset or the store fails
create_document_raises(ok) == db = "unset" \/ ~ok

create_product(payload, ok) ==
    IF ~create_document_raises(ok)
    THEN Response("create_product", payload, FALSE, 201,
                  [id |-> Str(create_document(create_product_data(model_dump(payload))).id)])
    ELSE Response("create_product", payload, db = "connected", 500,
                  [detail |-> "store error"])

\* A slip: seeding is skipped only once a whole demo set is stored.
seed_already_full(cnt) == cnt >= Len(demo)

\* if count > 0: return {"inserted": 0, "message": "Products already exist"}
seed_already(cnt) == cnt > 0

\* A slip: the collection is emptied before the demo set is inserted.
seed_insert_replacing(coll) == insert_many(<<>>, demo)

\* inserted = db["product"].insert_many(demo).inserted_ids
seed_insert(coll) == insert_many(coll, demo)

----------------------------------------------------------------------------
(* Requests *)

CategoryInputs ==
    { None, Str(<<>>), Str(Tops), Str(LowerTops), Str(Bottoms), Str(Outerwear) }

UpperHex(s) == [i \in 1..Len(s) |-> IF s[i] \in 97..102 THEN s[i] - 32 ELSE s[i]]

\* Path ids of GET /api/products/{id}: the ids of the first two documents, of
\* the created ones, the next unassigned one, an upper-case spelling, a string
\* of the right length that is not hexadecimal, and a string too short.
IdInputs ==
    { ObjectIdStr(n) : n \in {9, 10, nextId} }
        \cup { created[i].id : i \in 1..Len(created) }
        \cup { UpperHex(ObjectIdStr(10)) }
        \cup { [i \in 1..IdLen |-> 122], [i \in 1..(IdLen - 1) |-> 48] }

InitStore ==
    /\ products = <<>>
    /\ nextId = 9
    /\ pc = [w \in Workers |-> "idle"]
    /\ resp = [op |-> "none", arg |-> None, fault |-> FALSE, status |-> 0, body |-> None]
    /\ created = <<>>

Init ==
    /\ db \in {"unset", "connected"}
    /\ InitStore
    /\ sin = None
    /\ sdoc = None
    /\ sout = None
    /\ spc = "idle"

ReadRoot ==
    /\ resp' = read_root
    /\ UNCHANGED <<db, products, nextId, pc, created, serVars>>

Hello ==
    /\ resp' = hello
    /\ UNCHANGED <<db, products, nextId, pc, created, serVars>>

TestDatabase ==
    \E ok \in StoreOutcomes :
        /\ resp' = test_database(ok)
        /\ UNCHANGED <<db, products, nextId, pc, created, serVars>>

ListProducts ==
    \E category \in CategoryInputs, ok \in StoreOutcomes :
        /\ resp' = list_products(category, ok)
        /\ UNCHANGED <<db, products, nextId, pc, created, serVars>>

CreateProduct ==
    \E payload \in Payloads, ok \in StoreOutcomes :
        /\ Len(created) < MaxCreates
        /\ IF ~ProductSchemaValid(payload)
           THEN /\ resp' = Response("create_product", payload, FALSE, 422,
                                    [detail |-> "validation error"])
                /\ UNCHANGED <<products, nextId, created>>
           ELSE /\ resp' = create_product(payload, ok)
                /\ IF resp'.status = 201
                   THEN /\ products' = create_document(
                                           create_product_data(model_dump(payload))).coll
                        /\ nextId' = nextId + 1
                        /\ created' = Append(created,
                                          [payload |-> payload, id |-> resp'.body.id.v])
                   ELSE UNCHANGED <<products, nextId, created>>
        /\ UNCHANGED <<db, pc, serVars>>

GetProduct ==
    \E product_id \in IdInputs, ok \in StoreOutcomes :
        /\ resp' = get_product(product_id, ok)
        /\ UNCHANGED <<db, products, nextId, pc, created, serVars>>

ListCategories ==
    \E ok \in StoreOutcomes :
        /\ resp' = list_categories(ok)
        /\ UNCHANGED <<db, products, nextId, pc, created, serVars>>

\* seed_products up to its return or to the call of insert_many: the handle
\* check, count_documents and the test of the count.  The local `count` is
\* dead after the test: a worker that goes on to insert has read 0.
SeedCount(w, ok) ==
    /\ pc[w] = "idle"
    /\ IF db = "unset"
       THEN /\ resp' = Response("seed_products", None, FALSE, 500,
                                [detail |-> "Database not available"])
            /\ pc' = pc
       ELSE IF ~ok
       THEN /\ resp' = Response("seed_products", None, TRUE, 500, "Internal Server Error")
            /\ pc' = pc
       ELSE LET count == Len(products)
            IN IF seed_already(count)
               THEN /\ resp' = Response("seed_products", None, FALSE, 200,
                            [inserted |-> 0, message |-> "Products already exist"])
                    /\ pc' = pc
               ELSE /\ pc' = [pc EXCEPT ![w] = "insert"]
                    /\ resp' = resp
    /\ UNCHANGED <<db, products, nextId, created, serVars>>

\* seed_products from insert_many to its return
SeedInsert(w, ok) ==
    /\ pc[w] = "insert"
    /\ pc' = [pc EXCEPT ![w] = "idle"]
    /\ IF ok
       THEN /\ products' = seed_insert(products)
            /\ nextId' = nextId + Len(demo)
            /\ resp' = Response("seed_products", None, FALSE, 200,
                                [inserted |-> Len(products') - Len(products)])
       ELSE /\ resp' = Response("seed_products", None, TRUE, 500, "Internal Server Error")
            /\ UNCHANGED <<products, nextId>>
    /\ UNCHANGED <<db, created, serVars>>

SeedProductsCount == \E w \in Workers, ok \in StoreOutcomes : SeedCount(w, ok)

SeedProductsInsert == \E w \in Workers, ok \in StoreOutcomes : SeedInsert(w, ok)

Next ==
    \/ ReadRoot
    \/ Hello
    \/ TestDatabase
    \/ ListProducts
    \/ CreateProduct
    \/ GetProduct
    \/ ListCategories
    \/ SeedProductsCount
    \/ SeedProductsInsert

Spec == Init /\ [][Next]_vars

----------------------------------------------------------------------------
(* Claims about the service.  `resp` is the response of the request that     *)
(* completed last; every request that changes the collection completes in    *)
(* the step that changes it, so `resp` always speaks of the collection as it  *)
(* is.                                                                        *)

\* The stored products of category X, externalized as list_products does.
Externalized(d) == ProductResponse(serialize_doc(d))

StoredWithCategory(X) ==
    LET docs == SelectSeq(products, LAMBDA d : d["category"] = X)
    IN [i \in 1..Len(docs) |-> Externalized(docs[i])]

AllStored == [i \in 1..Len(products) |-> Externalized(products[i])]

Stored(product_id) ==
    \E i \in 1..Len(products) : PyStr(products[i]["_id"]) = product_id

GetAnswered == resp.op = "get_product" /\ db = "connected" /\ ~resp.fault

\* C1: with the store available, get_product answers 404 for a well-formed id
\* that matches no stored product and 400 for an id that is no ObjectId.
C1_NotFound404Malformed400 ==
    GetAnswered =>
        IF ObjectIdValid(resp.arg)
        THEN (~Stored(resp.arg)) => resp.status = 404
        ELSE resp.status = 400

\* C2: a seed_products call that counts a non-empty collection inserts
\* nothing, leaves the collection as it is and answers inserted = 0 with the
\* message "Products already exist".
C2_SeedIdempotent ==
    [][\A w \in Workers :
          (db = "connected" /\ products # <<>> /\ SeedCount(w, TRUE)) =>
              /\ products' = products
              /\ pc'[w] = "idle"
              /\ resp'.op = "seed_products"
              /\ resp'.status = 200
              /\ resp'.body = [inserted |-> 0, message |-> "Products already exist"]]_vars

\* A seed call has answered "already exist" on a collection that holds the
\* demo set and a created product.
C2_Witness ==
    /\ resp.op = "seed_products"
    /\ resp.status = 200
    /\ resp.body.inserted = 0
    /\ resp.body.message = "Products already exist"
    /\ Len(products) > Len(demo)
    /\ created # <<>>

\* C3: under every interleaving, a seed that has inserted the demo set
\* inserted it into an empty collection, and the collection never holds more
\* than one copy of the demo set.
C3_SeedAtomic ==
    /\ (resp.op = "seed_products" /\ resp.status = 200 /\ resp.body.inserted > 0)
           => Len(products) = resp.body.inserted
    /\ Cardinality({ i \in 1..Len(products) :
                       products[i]["title"] = Str(DemoTitle1) }) <= 1

ListAnswered == resp.op = "list_products" /\ db = "connected" /\ ~resp.fault

\* C4 as stated: list_products with category = X returns exactly the stored
\* products whose category is X, for every text X, the empty one included, and
\* all stored products only when the parameter is absent.
C4_FilterExactForEveryText ==
    ListAnswered =>
        /\ resp.status = 200
        /\ resp.body = IF resp.arg = None THEN AllStored
                       ELSE StoredWithCategory(resp.arg)

\* C4 as amended: list_products with a non-empty category X returns exactly
\* the stored products whose category is X, by case-sensitive exact match; it
\* returns all stored products when the parameter is absent or empty.
C4_FilterExactNonEmpty ==
    ListAnswered =>
        /\ resp.status = 200
        /\ resp.body = IF resp.arg = None \/ resp.arg = Str(<<>>) THEN AllStored
                       ELSE StoredWithCategory(resp.arg)

\* Listing "tops" has returned the one product of that category while a
\* product of category "Tops" is stored too.
C4_Witness ==
    /\ ListAnswered
    /\ resp.arg = Str(LowerTops)
    /\ Len(resp.body) = 1
    /\ resp.body[1]["category"] = Str(LowerTops)
    /\ \E i \in 1..Len(products) : products[i]["category"] = Str(Tops)

\* C5: list_categories returns a strictly ascending list whose elements are
\* exactly the distinct non-empty category values of the stored products.
C5_CategoriesSortedDistinct ==
    (resp.op = "list_categories" /\ db = "connected" /\ ~resp.fault) =>
        /\ resp.status = 200
        /\ \A i, j \in 1..Len(resp.body) :
               i < j => StrLess(resp.body[i].v, resp.body[j].v)
        /\ { resp.body[i] : i \in 1..Len(resp.body) } =
               { products[i]["category"] : i \in 1..Len(products) } \ {Str(<<>>)}

\* The categories of a seeded collection with a created "tops" product have
\* been listed: Bottoms (stored twice), Hoodies, Outerwear, Tops, tops.
C5_Witness ==
    /\ resp.op = "list_categories"
    /\ resp.status = 200
    /\ resp.body = <<Str(Bottoms), Str(Hoodies), Str(Outerwear), Str(Tops), Str(LowerTops)>>

\* C6: for every product created from a valid payload P with returned id, a
\* get_product of that id on a working store answers 200 with that id as a
\* string, P's title, price and category, in_stock = true when P omitted it and
\* P's value otherwise, image = null when P omitted it and P's value otherwise.
C6_CreateThenGet ==
    db = "connected" =>
        \A i \in 1..Len(created) :
            LET P == created[i].payload
                r == get_product(created[i].id, TRUE)
            IN /\ r.status = 200
               /\ r.body["id"] = Str(created[i].id)
               /\ r.body["title"] = P["title"]
               /\ r.body["price"] = P["price"]
               /\ r.body["category"] = P["category"]
               /\ r.body["in_stock"] =
                      IF "in_stock" \in DOMAIN P THEN P["in_stock"] ELSE Bool(TRUE)
               /\ r.body["image"] = IF "image" \in DOMAIN P THEN P["image"] ELSE None

\* Two products were created, one from a payload without in_stock and image
\* and one from a payload with both, and one of them has been fetched.
C6_Witness ==
    /\ resp.op = "get_product"
    /\ resp.status = 200
    /\ \E i \in 1..Len(created) : created[i].id = resp.arg
    /\ \E i \in 1..Len(created) : "image" \notin DOMAIN created[i].payload
    /\ \E i \in 1..Len(created) :
           /\ "image" \in DOMAIN created[i].payload
           /\ created[i].payload["image"] = Str(TeeImage)

\* C7: while the store handle is unset, list_categories answers the empty
\* list, create_product (of a valid payload) and seed_products answer 500, and
\* nothing is stored.
C7_Unavailable ==
    db = "unset" =>
        /\ products = <<>>
        /\ created = <<>>
        /\ resp.op = "list_categories" => resp.status = 200 /\ resp.body = <<>>
        /\ resp.op = "seed_products" => resp.status = 500
        /\ (resp.op = "create_product" /\ ProductSchemaValid(resp.arg))
               => resp.status = 500

\* A valid create has been refused while the handle is unset.
C7_Witness ==
    /\ db = "unset"
    /\ resp.op = "create_product"
    /\ ProductSchemaValid(resp.arg)
    /\ resp.status = 500

\* C8: a store failure (handle unset, or a store call that raises) during
\* get_product of a well-formed id, or during create_product, is answered 500;
\* get_product answers 400 only for a malformed id.
C8_StoreFailure500 ==
    /\ (resp.op = "get_product" /\ ObjectIdValid(resp.arg)
            /\ (db = "unset" \/ resp.fault)) => resp.status = 500
    /\ (resp.op = "create_product" /\ ProductSchemaValid(resp.arg)
            /\ (db = "unset" \/ resp.fault)) => resp.status = 500
    /\ (resp.op = "get_product" /\ resp.status = 400) => ~ObjectIdValid(resp.arg)

\* C9: every step keeps the stored products, with their ids and values, and
\* only adds to them; only create_product and seed_products add; the ids are
\* pairwise distinct and are the next ones of the store's generator, also when
\* the payload carries an identifier of its own.
C9_AppendOnly ==
    [][/\ Len(products') >= Len(products)
       /\ SubSeq(products', 1, Len(products)) = products
       /\ products' # products => resp'.op \in {"create_product", "seed_products"}
       /\ \A i, j \in 1..Len(products') :
              i # j => products'[i]["_id"] # products'[j]["_id"]
       /\ \A i \in (Len(products) + 1)..Len(products') :
              /\ products'[i]["_id"] = ObjectId(nextId + i - Len(products) - 1)
              /\ (resp'.op = "create_product" /\ "_id" \in DOMAIN resp'.arg)
                     => products'[i]["_id"] # resp'.arg["_id"]]_vars

\* A product whose payload carried an identifier is stored next to two copies
\* of the demo set.
C9_Witness ==
    /\ \E i \in 1..Len(created) : "_id" \in DOMAIN created[i].payload
    /\ Len(products) > 2 * Len(demo)

----------------------------------------------------------------------------
(* serialize_doc on its own: every small document, then one call *)

SerFields == {"_id", "id", "owner", "title"}

SerValues ==
    { ObjectId(171), Str(<<97, 98>>), None, Num(7), ("ref" :> ObjectId(171)) }

SerDocs ==
    { d \in UNION { [S -> SerValues] : S \in SUBSET SerFields } :
        "_id" \in DOMAIN d => ~IsDict(d["_id"]) }

SerInputs == SerDocs \cup {None}

InitSerialize ==
    /\ db = "unset"
    /\ InitStore
    /\ sin \in SerInputs
    /\ sdoc = sin
    /\ sout = None
    /\ spc = "call"

SerializeCall ==
    /\ spc = "call"
    /\ sout' = serialize_doc(sdoc)
    /\ sdoc' = serialize_doc_arg(sdoc)
    /\ spc' = "done"
    /\ UNCHANGED <<sin, storeVars>>

NextSerialize == SerializeCall

SpecSerialize == InitSerialize /\ [][NextSerialize]_vars


----------------------------------------------------------------------------
(* C10 *)

\* The top-level fields of the input that pass to the output under their own
\* name: all but the internal identifier, and but an `id` that the renamed
\* identifier replaces.
SerKept(doc) ==
    IF "_id" \in DOMAIN doc THEN DOMAIN doc \ {"_id", "id"} ELSE DOMAIN doc

\* C10: serialize_doc returns an empty or absent document unchanged; for a
\* non-empty document the result has no `_id`, its `id` is the string form of
\* the input's `_id` (a string that parses back to it when `_id` is an
\* ObjectId), every other top-level ObjectId is replaced by its string form,
\* every remaining field keeps its key and value, no other key appears, and
\* the caller's document is left as it was passed.
C10_Serialize ==
    spc = "done" =>
        /\ sdoc = sin
        /\ ~Truthy(sin) => sout = sin
        /\ Truthy(sin) =>
            /\ "_id" \notin DOMAIN sout
            /\ DOMAIN sout =
                   SerKept(sin) \cup (IF "_id" \in DOMAIN sin THEN {"id"} ELSE {})
            /\ "_id" \in DOMAIN sin =>
                   /\ sout["id"].t = "str"
                   /\ sout["id"].v = PyStr(sin["_id"])
                   /\ isinstance_ObjectId(sin["_id"]) =>
                          /\ ObjectIdValid(sout["id"].v)
                          /\ ObjectIdParse(sout["id"].v) = sin["_id"]
            /\ \A k \in SerKept(sin) :
                   IF isinstance_ObjectId(sin[k])
                   THEN /\ sout[k].t = "str"
                        /\ ObjectIdValid(sout[k].v)
                        /\ ObjectIdParse(sout[k].v) = sin[k]
                   ELSE sout[k] = sin[k]

\* A document with `_id`, a caller-visible `id`, another ObjectId field and a
\* plain field has been serialized.
C10_Witness ==
    /\ spc = "done"
    /\ DOMAIN sin = {"_id", "id", "owner", "title"}
    /\ isinstance_ObjectId(sin["_id"])
    /\ isinstance_ObjectId(sin["owner"])
    /\ sin["title"] = Num(7)
    /\ sout["id"] = Str(ObjectIdStr(171))
    /\ sout["owner"] = Str(ObjectIdStr(171))

=============================================================================
